---- MODULE Spec2Model ----
(***************************************************************************)
(* trend-alert: src/main.py.  One run of main(): token check, the search   *)
(* GET under tenacity's retry decorator, console summary, optional         *)
(* Markdown file, optional Slack step (one digest per displayed item, then *)
(* one webhook POST).                                                      *)
(*                                                                         *)
(* Text is a sequence of tokens (atomic strings); a Python str is such a   *)
(* sequence and "+" / f-string interpolation is \o.  The newline is the    *)
(* token "\n".  The module is ASCII: the source's non-ASCII literals are   *)
(* written  "*" for the star sign, "-" for the em dash placeholder,        *)
(* " ." for the middle-dot separator, the apostrophe for the backquote, and *)
(* romanised labels.                                                       *)
(* A Python Optional (None or a value, an unset environment variable or a  *)
(* missing dict key) is a sequence of length 0 or 1.                       *)
(*                                                                         *)
(* Environment assumptions: a 2xx search response carries the JSON object  *)
(* of the search API with items holding the fields main reads; writes to   *)
(* stdout, stderr and the Markdown path succeed.  The sleep between two     *)
(* attempts (wait_exponential) changes nothing the script reads and is     *)
(* left out.                                                               *)
(***************************************************************************)
EXTENDS Integers, Sequences, FiniteSets, TLC

\* ------------------------------------------------------------- bounds
\* longest items list a search response carries
MaxItems == 2
\* longest use_cases list the language model returns (the prompt asks for 3)
MaxUseCases == 4
\* longest setup list the language model returns (the prompt asks for 2-4)
MaxSetup == 5

\* stop_after_attempt(3)
MaxAttempts == 3
\* d.use_cases[:3]
UseCaseCap == 3
\* d.setup[:4]
SetupCap == 4

\* ------------------------------------------------------------- Python helpers
None == <<>>
Some(v) == <<v>>

Min(a, b) == IF a < b THEN a ELSE b
Max(a, b) == IF a > b THEN a ELSE b

IsSpace(c) == c \in {" ", "\n"}

\* bool(v) is False, mutated: only None counts (the empty string passes)
FalsyNoneOnly(v) == v = None
\* 'not v' for an Optional[str]: None and "" are both falsy
Falsy(v) == v = None \/ v[1] = <<>>

\* x or "" : None and "" both give ""
OrEmpty(v) == IF v = None THEN <<>> ELSE v[1]
\* x or "-"
OrDash(v) == IF v = None \/ v[1] = <<>> THEN <<"-">> ELSE v[1]

\* seq[:n] without Python's negative-index rule
SliceToClamped(seq, n) == SubSeq(seq, 1, Min(Max(n, 0), Len(seq)))
\* seq[:n] : n >= 0 keeps the first min(n, len); n < 0 drops the last -n
SliceTo(seq, n) ==
  IF n >= 0 THEN SubSeq(seq, 1, Min(n, Len(seq)))
  ELSE SubSeq(seq, 1, Max(0, Len(seq) + n))

RECURSIVE LStrip(_)
LStrip(s) == IF s # <<>> /\ IsSpace(Head(s)) THEN LStrip(Tail(s)) ELSE s
RECURSIVE RStrip(_)
RStrip(s) ==
  IF s # <<>> /\ IsSpace(s[Len(s)]) THEN RStrip(SubSeq(s, 1, Len(s) - 1)) ELSE s
\* str.strip()
Strip(s) == RStrip(LStrip(s))

\* str.replace(a, b) for single-token a, b
Replace(s, a, b) == [k \in 1..Len(s) |-> IF s[k] = a THEN b ELSE s[k]]

\* sep.join(parts)
RECURSIVE Join(_, _)
Join(parts, sep) ==
  IF parts = <<>> THEN <<>>
  ELSE IF Len(parts) = 1 THEN parts[1]
  ELSE parts[1] \o <<sep>> \o Join(Tail(parts), sep)

\* enumerate(seq, 1)
Enumerate1(seq) == [k \in 1..Len(seq) |-> <<k, seq[k]>>]

\* ------------------------------------------------------------- renderers
\* the four lines and the blank one of one result section
MdSection(i, it) ==
  << <<"## ", ToString(i), ". [">> \o it.full_name \o <<"](">> \o it.html_url
        \o <<")  *", ToString(it.stargazers_count)>>,
     <<"- lang: '">> \o OrDash(it.language) \o <<"'">>,
     <<"- created: '">> \o it.created_at \o <<"' / pushed: '">> \o it.pushed_at \o <<"'">>,
     LET desc == Replace(Strip(OrEmpty(it.description)), "\n", " ")
     IN  <<"- desc: ">> \o (IF desc = <<>> THEN <<"-">> ELSE desc),
     <<>> >>

RECURSIVE MdSections(_)
MdSections(pairs) ==
  IF pairs = <<>> THEN <<>>
  ELSE MdSection(pairs[1][1], pairs[1][2]) \o MdSections(Tail(pairs))

format_markdown(items, top, title, now) ==
  LET md == << <<"# ">> \o title, <<>>, <<"generated: ", now>>, <<>> >>
              \o MdSections(Enumerate1(SliceTo(items, top)))
  IN  Join(md, "\n")

SetupLines(setup) == [k \in 1..Len(setup) |-> <<"   - ">> \o setup[k]]

\* the block without the [:3] and [:4] slices
slack_block_untruncated(i, it, d) ==
  LET uc == IF d.use_cases # <<>> THEN Join(d.use_cases, " .") ELSE <<"-">>
      setup == IF d.setup # <<>> THEN Join(SetupLines(d.setup), "\n") ELSE <<>>
  IN  <<ToString(i), ". ">> \o it.full_name \o <<" *", ToString(it.stargazers_count), "\n">>
      \o <<"   ">> \o it.html_url \o <<"\n">>
      \o <<"   ">> \o d.summary \o <<"\n">>
      \o <<"   why: ">> \o d.why_care \o <<" / difficulty*", ToString(d.difficulty), "\n">>
      \o <<"   uses: ">> \o uc \o <<"\n">>
      \o setup \o <<"\n">>

slack_block_with_digest(i, it, d) ==
  LET uc == IF d.use_cases # <<>>
            THEN Join(SliceTo(d.use_cases, UseCaseCap), " .") ELSE <<"-">>
      setup == IF d.setup # <<>>
               THEN Join(SetupLines(SliceTo(d.setup, SetupCap)), "\n") ELSE <<>>
  IN  <<ToString(i), ". ">> \o it.full_name \o <<" *", ToString(it.stargazers_count), "\n">>
      \o <<"   ">> \o it.html_url \o <<"\n">>
      \o <<"   ">> \o d.summary \o <<"\n">>
      \o <<"   why: ">> \o d.why_care \o <<" / difficulty*", ToString(d.difficulty), "\n">>
      \o <<"   uses: ">> \o uc \o <<"\n">>
      \o setup \o <<"\n">>

\* ------------------------------------------------------------- inputs
ItemA ==
  [full_name |-> <<"o/a">>, html_url |-> <<"https://github.com/o/a">>,
   stargazers_count |-> 9, description |-> None, language |-> None,
   created_at |-> <<"c1">>, pushed_at |-> <<"p1">>]
ItemB ==
  [full_name |-> <<"o/b">>, html_url |-> <<"https://github.com/o/b">>,
   stargazers_count |-> 7, description |-> Some(<<" ", "x", "\n", "y", "\n">>),
   language |-> Some(<<"Python">>),
   created_at |-> <<"c2">>, pushed_at |-> <<"p2">>]
ItemSet == {ItemA, ItemB}
ItemLists == UNION {[1..n -> ItemSet] : n \in 0..MaxItems}

\* what one requests.get can bring: a transport failure or an HTTP response
Responses ==
  {[kind |-> "transport", status |-> 0, ratelimit |-> FALSE, items |-> <<>>]}
  \cup {[kind |-> "http", status |-> 403, ratelimit |-> b, items |-> <<>>] : b \in BOOLEAN}
  \cup {[kind |-> "http", status |-> st, ratelimit |-> FALSE, items |-> <<>>] : st \in {500}}
  \cup {[kind |-> "http", status |-> 200, ratelimit |-> FALSE, items |-> l] : l \in ItemLists}

UcList(n) == [k \in 1..n |-> <<"u", ToString(k)>>]
StepList(n) == [k \in 1..n |-> <<"s", ToString(k)>>]
\* what chain.invoke can bring: a failure of the call, text that is no JSON,
\* or a JSON object (summary possibly missing, difficulty possibly out of range)
ModelOutputs ==
  {[kind |-> k, summary |-> None, why_care |-> <<"why">>, use_cases |-> <<>>,
    setup |-> <<>>, difficulty |-> 0] : k \in {"error", "garbage"}}
  \cup {[kind |-> "json", summary |-> s, why_care |-> <<"why">>, use_cases |-> UcList(n),
         setup |-> StepList(m), difficulty |-> df] :
           s \in {None, Some(<<"sum">>)}, n \in {0, MaxUseCases}, m \in {0, MaxSetup},
           df \in {0, 3, 6}}

\* what requests.post can bring
PostResponses == {[kind |-> "transport", status |-> 0], [kind |-> "http", status |-> 200],
                  [kind |-> "http", status |-> 500]}

Titles == {<<"trend">>}
Clock == {"2025-09-05T09:00:00"}
EnvValues == {None, Some(<<>>), Some(<<"v">>)}
TopValues == (0 - 1)..(MaxItems + 1)

\* ------------------------------------------------------------- state
VARIABLES
  token,       \* os.getenv("TREND_READ_GITHUB_TOKEN")
  webhook,     \* os.getenv("SLACK_WEBHOOK_URL")
  args,        \* parser.parse_args(): top, markdown_out, slack, title
  pc,          \* position in main
  attempt,     \* tenacity's attempt_number for search_repos
  responses,   \* what each search GET brought, in order
  items,       \* data.get("items", [])
  stdout,      \* lines printed to standard output
  stderr,      \* lines printed to standard error
  file,        \* content of the Markdown path, None while not written
  chain,       \* TRUE once build_chain() was called
  idx,         \* position of the digest loop (1-based)
  digests,     \* one record per summarize_with_langchain call, in order
  text_lines,  \* the Slack text under construction
  posts,       \* one record per requests.post, in order
  error,       \* the exception that left main, None if none
  exit         \* the process's exit status, None while running

vars == <<token, webhook, args, pc, attempt, responses, items, stdout, stderr, file,
          chain, idx, digests, text_lines, posts, error, exit>>

Init ==
  /\ token \in EnvValues
  /\ webhook \in EnvValues
  /\ args \in [top : TopValues, markdown_out : {<<>>, <<"out.md">>},
               slack : BOOLEAN, title : Titles]
  /\ pc = "start"
  /\ attempt = 1
  /\ responses = <<>>
  /\ items = <<>>
  /\ stdout = <<>>
  /\ stderr = <<>>
  /\ file = None
  /\ chain = FALSE
  /\ idx = 1
  /\ digests = <<>>
  /\ text_lines = <<>>
  /\ posts = <<>>
  /\ error = None
  /\ exit = None

\* an exception nobody catches: traceback, exit status 1
Raise(kind, cause, at) ==
  /\ error' = Some([kind |-> kind, cause |-> cause, at |-> at])
  /\ exit' = Some(1)
  /\ pc' = "done"

\* ------------------------------------------------------------- main, part 1
CheckToken ==
  /\ pc = "start"
  /\ IF Falsy(token)
     THEN /\ stderr' = Append(stderr, <<"ERROR: TREND_READ_GITHUB_TOKEN">>)
          /\ exit' = Some(1)
          /\ pc' = "done"
     ELSE /\ pc' = "search"
          /\ UNCHANGED <<stderr, exit>>
  /\ UNCHANGED <<token, webhook, args, attempt, responses, items, stdout, file,
                 chain, idx, digests, text_lines, posts, error>>

\* ------------------------------------------------------------- search_repos
\* the body of search_repos on response r: "ok" or the exception it raises
search_repos(r) ==
  IF r.kind = "transport" THEN "ConnectionError"
  ELSE IF r.status = 403 /\ r.ratelimit THEN "RuntimeError"
  ELSE IF r.status >= 400 THEN "HTTPError"
  ELSE "ok"

\* @retry without retry= : tenacity's default retry_if_exception_type(Exception)
RetryPredicate(exc) == TRUE

StopAfterFour(n) == n >= MaxAttempts + 1
\* stop=stop_after_attempt(3)
StopAfterAttempt(n) == n >= MaxAttempts

ReraiseTrue == TRUE
\* @retry without reraise= : tenacity's default reraise=False
Reraise == FALSE

\* one attempt of the decorated search_repos and tenacity's decision after it
SearchAttempt ==
  /\ pc = "search"
  /\ \E r \in Responses :
       LET out == search_repos(r) IN
         /\ responses' = Append(responses, r)
         /\ IF out = "ok"
            THEN /\ items' = r.items
                 /\ pc' = "console"
                 /\ UNCHANGED <<attempt, error, exit>>
            ELSE IF ~RetryPredicate(out)
            THEN /\ Raise(out, "none", "search")
                 /\ UNCHANGED <<attempt, items>>
            ELSE IF StopAfterAttempt(attempt)
            THEN /\ IF Reraise THEN Raise(out, "none", "search")
                               ELSE Raise("RetryError", out, "search")
                 /\ UNCHANGED <<attempt, items>>
            ELSE /\ attempt' = attempt + 1
                 /\ UNCHANGED <<pc, items, error, exit>>
  /\ UNCHANGED <<token, webhook, args, stdout, stderr, file, chain, idx, digests,
                 text_lines, posts>>

\* ------------------------------------------------------------- main, part 2
ConsoleLine(i, it) ==
  <<ToString(i), ". ">> \o it.full_name \o <<"  *", ToString(it.stargazers_count), "  ">>
    \o it.html_url

\* for i, it in enumerate(items[:args.top], 1): print(...)
Console ==
  /\ pc = "console"
  /\ LET shown == Enumerate1(SliceTo(items, args.top))
     IN  stdout' = stdout \o [k \in 1..Len(shown) |-> ConsoleLine(shown[k][1], shown[k][2])]
  /\ pc' = "markdown"
  /\ UNCHANGED <<token, webhook, args, attempt, responses, items, stderr, file,
                 chain, idx, digests, text_lines, posts, error, exit>>

\* the Markdown step left out
MarkdownSkipped ==
  /\ pc = "markdown"
  /\ pc' = "slack"
  /\ UNCHANGED <<token, webhook, args, attempt, responses, items, stdout, stderr, file,
                 chain, idx, digests, text_lines, posts, error, exit>>

\* if args.markdown_out: write format_markdown(...) to the path, print the note
Markdown ==
  /\ pc = "markdown"
  /\ IF args.markdown_out # <<>>
     THEN \E now \in Clock :
            /\ file' = Some(format_markdown(items, args.top, args.title, now))
            /\ stdout' = Append(stdout, <<"\n", "[INFO] Markdown -> ">> \o args.markdown_out)
     ELSE UNCHANGED <<file, stdout>>
  /\ pc' = "slack"
  /\ UNCHANGED <<token, webhook, args, attempt, responses, items, stderr,
                 chain, idx, digests, text_lines, posts, error, exit>>

\* the chain built before the webhook is looked at
SlackStepChainFirst ==
  /\ pc = "slack"
  /\ IF ~args.slack
     THEN /\ exit' = Some(0)
          /\ pc' = "done"
          /\ UNCHANGED <<stderr, chain, text_lines, error>>
     ELSE /\ chain' = TRUE
          /\ IF Falsy(webhook)
             THEN /\ stderr' = Append(stderr, <<"WARN: SLACK_WEBHOOK_URL">>)
                  /\ exit' = Some(0)
                  /\ pc' = "done"
                  /\ UNCHANGED <<text_lines, error>>
             ELSE \E built \in BOOLEAN :
                  IF built
                  THEN /\ text_lines' = <<args.title, <<>> >>
                       /\ pc' = "digest"
                       /\ UNCHANGED <<stderr, error, exit>>
                  ELSE /\ Raise("ChainError", "none", "build_chain")
                       /\ UNCHANGED <<stderr, text_lines>>
  /\ UNCHANGED <<token, webhook, args, attempt, responses, items, stdout, file,
                 idx, digests, posts>>

\* if args.slack: the webhook check, build_chain(), text_lines = [title, ""].
\* build_chain() constructs ChatOpenAI from the environment and may raise there
\* (no OPENAI_API_KEY): built = FALSE.
SlackStep ==
  /\ pc = "slack"
  /\ IF ~args.slack
     THEN /\ exit' = Some(0)
          /\ pc' = "done"
          /\ UNCHANGED <<stderr, chain, text_lines, error>>
     ELSE IF Falsy(webhook)
     THEN /\ stderr' = Append(stderr, <<"WARN: SLACK_WEBHOOK_URL">>)
          /\ exit' = Some(0)
          /\ pc' = "done"
          /\ UNCHANGED <<chain, text_lines, error>>
     ELSE /\ chain' = TRUE
          /\ \E built \in BOOLEAN :
               IF built
               THEN /\ text_lines' = <<args.title, <<>> >>
                    /\ pc' = "digest"
                    /\ UNCHANGED <<stderr, error, exit>>
               ELSE /\ Raise("ChainError", "none", "build_chain")
                    /\ UNCHANGED <<stderr, text_lines>>
  /\ UNCHANGED <<token, webhook, args, attempt, responses, items, stdout, file,
                 idx, digests, posts>>

\* PydanticOutputParser(pydantic_object=RepoDigest): the parsed digest, or None
ParseDigest(out) ==
  IF out.kind = "json" /\ out.summary # None /\ out.difficulty >= 1 /\ out.difficulty <= 5
  THEN Some([summary |-> out.summary[1], why_care |-> out.why_care,
             use_cases |-> out.use_cases, setup |-> out.setup,
             difficulty |-> out.difficulty])
  ELSE None

\* a loop that skips an item whose digest failed
DigestStepContinue ==
  /\ pc = "digest"
  /\ idx <= Len(SliceTo(items, args.top))
  /\ \E out \in ModelOutputs :
       LET it == items[idx]
           d == ParseDigest(out)
       IN  /\ digests' = Append(digests, [item |-> idx, d |-> d])
           /\ idx' = idx + 1
           /\ IF d = None
              THEN UNCHANGED text_lines
              ELSE text_lines' = text_lines \o
                     <<slack_block_with_digest(idx, it, d[1]),
                       <<"   ">> \o Strip(OrEmpty(it.description))>>
  /\ UNCHANGED <<token, webhook, args, pc, attempt, responses, items, stdout, stderr,
                 file, chain, posts, error, exit>>

\* one iteration of: for i, it in enumerate(items[:args.top], 1)
DigestStep ==
  /\ pc = "digest"
  /\ idx <= Len(SliceTo(items, args.top))
  /\ \E out \in ModelOutputs :
       LET it == items[idx]
           d == ParseDigest(out)
       IN  /\ digests' = Append(digests, [item |-> idx, d |-> d])
           /\ IF d = None
              THEN /\ Raise(IF out.kind = "error" THEN "ModelError" ELSE "OutputParserException",
                            "none", "digest")
                   /\ UNCHANGED <<idx, text_lines>>
              ELSE /\ text_lines' = text_lines \o
                        <<slack_block_with_digest(idx, it, d[1]),
                          <<"   ">> \o Strip(OrEmpty(it.description))>>
                   /\ idx' = idx + 1
                   /\ UNCHANGED <<pc, error, exit>>
  /\ UNCHANGED <<token, webhook, args, attempt, responses, items, stdout, stderr,
                 file, chain, posts>>

\* a POST whose failure is swallowed
PostLenient ==
  /\ pc = "digest"
  /\ idx > Len(SliceTo(items, args.top))
  /\ \E r \in PostResponses :
       /\ posts' = Append(posts, [text |-> Join(text_lines, "\n"), response |-> r])
       /\ stdout' = Append(stdout, <<"[INFO] Slack">>)
       /\ exit' = Some(0)
       /\ pc' = "done"
       /\ UNCHANGED error
  /\ UNCHANGED <<token, webhook, args, attempt, responses, items, stderr, file,
                 chain, idx, digests, text_lines>>

\* post_slack(webhook, "\n".join(text_lines)); print the note; main returns
Post ==
  /\ pc = "digest"
  /\ idx > Len(SliceTo(items, args.top))
  /\ \E r \in PostResponses :
       /\ posts' = Append(posts, [text |-> Join(text_lines, "\n"), response |-> r])
       /\ IF r.kind = "transport"
          THEN /\ Raise("ConnectionError", "none", "post")
               /\ UNCHANGED stdout
          ELSE IF r.status >= 400
          THEN /\ Raise("HTTPError", "none", "post")
               /\ UNCHANGED stdout
          ELSE /\ stdout' = Append(stdout, <<"[INFO] Slack">>)
               /\ exit' = Some(0)
               /\ pc' = "done"
               /\ UNCHANGED error
  /\ UNCHANGED <<token, webhook, args, attempt, responses, items, stderr, file,
                 chain, idx, digests, text_lines>>

Next ==
  \/ CheckToken
  \/ SearchAttempt
  \/ Console
  \/ Markdown
  \/ SlackStep
  \/ DigestStep
  \/ Post

Spec == Init /\ [][Next]_vars
\* ------------------------------------------------------------- reading the outputs
HasToken(s, sep) == \E k \in 1..Len(s) : s[k] = sep
FirstIndex(s, sep) == CHOOSE k \in 1..Len(s) : s[k] = sep /\ \A j \in 1..(k - 1) : s[j] # sep

\* str.split(sep) for a single-token sep
RECURSIVE Split(_, _)
Split(s, sep) ==
  IF ~HasToken(s, sep) THEN <<s>>
  ELSE LET k == FirstIndex(s, sep)
       IN  <<SubSeq(s, 1, k - 1)>> \o Split(SubSeq(s, k + 1, Len(s)), sep)

StartsWith(line, tok) == line # <<>> /\ line[1] = tok
RECURSIVE Select(_, _)
Select(lines, tok) ==
  IF lines = <<>> THEN <<>>
  ELSE (IF StartsWith(lines[1], tok) THEN <<lines[1]>> ELSE <<>>) \o Select(Tail(lines), tok)
Rest(line) == SubSeq(line, 2, Len(line))
Contains(line, part) ==
  \E k \in 0..(Len(line) - Len(part)) : SubSeq(line, k + 1, k + Len(part)) = part

TokenMissing == token = None \/ token = Some(<<>>)
WebhookMissing == webhook = None \/ webhook = Some(<<>>)
Is2xx(r) == r.kind = "http" /\ r.status >= 200 /\ r.status <= 299
SearchSucceeded == responses # <<>> /\ Is2xx(responses[Len(responses)])
\* the number of items of items[:top]
NumDisplayed ==
  IF args.top >= 0 THEN Min(args.top, Len(items)) ELSE Max(0, Len(items) + args.top)
Terminated == pc = "done"
NoChatActivity == digests = <<>> /\ posts = <<>> /\ ~chain

\* ------------------------------------------------------------- C1
\* C1: with TREND_READ_GITHUB_TOKEN unset or empty the run makes no search GET, no
\* digest call, no webhook POST, writes no Markdown file, never leaves the token
\* check except to terminate, and terminates with exit status 1 and the error
\* message on standard error.
C1_NoTokenNoCalls ==
  TokenMissing =>
    /\ responses = <<>> /\ NoChatActivity /\ file = None /\ stdout = <<>>
    /\ pc \in {"start", "done"}
    /\ Terminated => exit = Some(1) /\ Len(stderr) = 1

C1_Witness == token = Some(<<>>) /\ Terminated /\ exit = Some(1) /\ args.slack
              /\ args.markdown_out # <<>>

\* ------------------------------------------------------------- C2
PlainHttpError(r) ==
  r.kind = "http" /\ ~Is2xx(r) /\ ~(r.status = 403 /\ r.ratelimit)

\* C2: when the first search response is a non-2xx one other than a rate-limit 403
\* (404, 500, a 403 without "rate limit"), exactly one GET is issued in the run.
C2_NoRetryOnPlainHttpError ==
  (responses # <<>> /\ PlainHttpError(responses[1])) => Len(responses) = 1

\* ------------------------------------------------------------- C3
RateLimited(r) == r.kind = "http" /\ r.status = 403 /\ r.ratelimit

\* C3: search_repos never issues more than 3 GETs and issues none after a 2xx
\* response; when the responses are rate-limit 403, rate-limit 403, 200, the search
\* returns the items of the third response after exactly 3 GETs, no error comes
\* from the search, and a run without the chat step ends with exit status 0.
C3_RetryThenSuccess ==
  /\ Len(responses) <= 3
  /\ \A k \in 1..(Len(responses) - 1) : ~Is2xx(responses[k])
  /\ (Len(responses) >= 2 /\ RateLimited(responses[1]) /\ RateLimited(responses[2])) =>
       /\ pc = "search" <=> Len(responses) = 2
       /\ (Len(responses) = 3 /\ Is2xx(responses[3])) =>
            /\ items = responses[3].items
            /\ pc # "search"
            /\ error # None => error[1].at # "search"
            /\ (Terminated /\ ~args.slack) => exit = Some(0)

C3_Witness ==
  /\ Len(responses) = 3
  /\ RateLimited(responses[1]) /\ RateLimited(responses[2]) /\ Is2xx(responses[3])
  /\ items # <<>> /\ Terminated /\ exit = Some(0)

\* ------------------------------------------------------------- C4
FailedAttempt(r) == r.kind = "transport" \/ ~Is2xx(r)
AllAttemptsFailed ==
  Len(responses) = 3 /\ \A k \in 1..3 : FailedAttempt(responses[k])
\* the error the body of search_repos raises on a failed attempt
Underlying(r) ==
  IF r.kind = "transport" THEN "ConnectionError"
  ELSE IF RateLimited(r) THEN "RuntimeError" ELSE "HTTPError"
FatalAtSearch ==
  /\ Terminated /\ exit = Some(1)
  /\ stdout = <<>> /\ file = None /\ NoChatActivity

\* C4 as stated: after 3 failed attempts the error that reaches main is the error
\* of the failed attempt itself, and the run stops there with a nonzero status.
C4_UnderlyingErrorSurfaces ==
  AllAttemptsFailed =>
    /\ FatalAtSearch
    /\ error # None /\ error[1].kind = Underlying(responses[3])

\* C4 amended: after 3 failed attempts the error that reaches main is tenacity's
\* RetryError wrapping the error of the third attempt, and the run stops there: no
\* console output, no Markdown file, no digest call, no POST, exit status 1.
C4_RetryErrorSurfaces ==
  AllAttemptsFailed =>
    /\ FatalAtSearch
    /\ error = Some([kind |-> "RetryError", cause |-> Underlying(responses[3]),
                     at |-> "search"])

C4_Witness ==
  /\ AllAttemptsFailed /\ Terminated
  /\ RateLimited(responses[1]) /\ responses[3].kind = "transport"
  /\ args.slack /\ args.markdown_out # <<>>

\* ------------------------------------------------------------- C5
\* C5: with --slack and SLACK_WEBHOOK_URL unset or empty there is never a digest
\* call, a chain or a POST; once the search succeeded the run ends with exit status
\* 0, one warning on standard error, the console line of every displayed item and,
\* when a Markdown path is given, the file written and its note printed.
C5_MissingWebhookSkips ==
  (args.slack /\ WebhookMissing) =>
    /\ NoChatActivity
    /\ (Terminated /\ SearchSucceeded) =>
         /\ exit = Some(0) /\ error = None
         /\ stderr = << <<"WARN: SLACK_WEBHOOK_URL">> >>
         /\ Len(stdout) = NumDisplayed + (IF args.markdown_out # <<>> THEN 1 ELSE 0)
         /\ \A k \in 1..NumDisplayed :
              stdout[k][1] = ToString(k) /\ Contains(stdout[k], items[k].html_url)
         /\ file # None <=> args.markdown_out # <<>>

C5_Witness ==
  /\ args.slack /\ webhook = Some(<<>>) /\ Terminated /\ SearchSucceeded
  /\ NumDisplayed = 2 /\ file # None /\ exit = Some(0)

\* ------------------------------------------------------------- C6
\* C6: the digest calls go through the displayed items in order, one call each; a
\* failed call is the last one, and the run has then ended with exit status 1
\* without any POST.
C6_DigestFailureAborts ==
  \A j \in 1..Len(digests) :
    /\ digests[j].item = j
    /\ digests[j].d = None =>
         /\ j = Len(digests)
         /\ posts = <<>>
         /\ Terminated /\ exit = Some(1)
         /\ error # None /\ error[1].at = "digest"

C6_Witness ==
  /\ Len(digests) = 1 /\ digests[1].d = None /\ NumDisplayed = 2 /\ Terminated

\* ------------------------------------------------------------- C7
MdHeaders == Select(Split(file[1], "\n"), "## ")
\* line k of the document opens the section of item it under number i
SectionAt(lines, k, i, it) ==
  /\ k + 4 <= Len(lines)
  /\ lines[k][1] = "## " /\ lines[k][2] = ToString(i)
  /\ Contains(lines[k], <<". [">> \o it.full_name \o <<"](">> \o it.html_url \o <<")  *">>)
  /\ StartsWith(lines[k + 1], "- lang: '")
  /\ lines[k + 2] = <<"- created: '">> \o it.created_at \o <<"' / pushed: '">>
                       \o it.pushed_at \o <<"'">>
  /\ StartsWith(lines[k + 3], "- desc: ") /\ Len(lines[k + 3]) >= 2
  /\ lines[k + 4] = <<>>
\* title line, timestamp line, then n sections of five lines, numbered from 1,
\* section i for items[i]
MdShape(n) ==
  LET lines == Split(file[1], "\n") IN
  /\ Len(lines) = 4 + 5 * n
  /\ lines[1] = <<"# ">> \o args.title
  /\ lines[2] = <<>>
  /\ \E now \in Clock : lines[3] = <<"generated: ", now>>
  /\ lines[4] = <<>>
  /\ Len(Select(lines, "## ")) = n
  /\ \A i \in 1..n : SectionAt(lines, 5 * i, i, items[i])

\* C7 as stated: the written document has the title line, the timestamp line and
\* exactly min(top, len(items)) sections, for every top, negative ones included.
C7_MinTopSections == file # None => MdShape(Min(args.top, Len(items)))

\* C7 amended: the document has the title line, the timestamp line and one section
\* per item of items[:top], numbered from 1 in input order: min(top, len(items))
\* sections when top >= 0, and max(0, len(items) + top) sections when top < 0.
C7_SliceSections ==
  file # None =>
    MdShape(IF args.top >= 0 THEN Min(args.top, Len(items))
            ELSE Max(0, Len(items) + args.top))

C7_Witness ==
  /\ file # None /\ args.top = 0 - 1 /\ Len(items) = 2 /\ Len(MdHeaders) = 1
  /\ items[1] = ItemB

\* ------------------------------------------------------------- C8
\* the block of the j-th digest in text_lines = [title, "", block 1, desc 1, ...]
BlockLines(j) == Split(text_lines[2 * j + 1], "\n")
SetupOut(j) == Select(BlockLines(j), "   - ")

\* C8: the block of every digest has one use-case line holding the first 3
\* use_cases in order (the dash when there are none) and one setup line for each of
\* the first 4 setup entries in order (none when there are none).
C8_DigestBlockCaps ==
  \A j \in 1..Len(digests) :
    digests[j].d # None =>
      LET d == digests[j].d[1]
          nuc == IF Len(d.use_cases) < 3 THEN Len(d.use_cases) ELSE 3
          nst == IF Len(d.setup) < 4 THEN Len(d.setup) ELSE 4
          lines == BlockLines(j)
          usesLine == Select(lines, "   uses: ")
          setupOut == Select(lines, "   - ")
      IN  /\ Len(text_lines) >= 2 * j + 2
          /\ Len(usesLine) = 1
          /\ LET uses == Split(Rest(usesLine[1]), " .")
             IN  IF d.use_cases = <<>> THEN uses = << <<"-">> >>
                 ELSE uses = SubSeq(d.use_cases, 1, nuc)
          /\ Len(setupOut) = nst
          /\ \A k \in 1..nst : Rest(setupOut[k]) = d.setup[k]

C8_Witness ==
  \E j \in 1..Len(digests) :
    /\ digests[j].d # None
    /\ Len(digests[j].d[1].use_cases) > 3 /\ Len(digests[j].d[1].setup) > 4
    /\ Len(SetupOut(j)) = 4
    /\ \E i \in 1..Len(digests) : digests[i].d # None /\ digests[i].d[1].use_cases = <<>>

\* ------------------------------------------------------------- C9
PostFailed(p) == p.response.kind = "transport" \/ ~Is2xx(p.response)
SuccessNote == <<"[INFO] Slack">>
NotePrinted == \E k \in 1..Len(stdout) : stdout[k] = SuccessNote

ConsolePrinted ==
  /\ Len(stdout) >= NumDisplayed
  /\ \A k \in 1..NumDisplayed : stdout[k][1] = ToString(k)
MarkdownDone ==
  IF args.markdown_out # <<>>
  THEN \E now \in Clock : file = Some(format_markdown(items, args.top, args.title, now))
  ELSE file = None

\* C10: the steps are ordered search, console, Markdown, chat: a written file
\* implies a successful search and the console lines; a built chain, a digest call
\* or a POST implies all of that and the Markdown step done; and a run that fails
\* in the chat step ends with the file still written.
C10_StepOrder ==
  /\ (file # None \/ stdout # <<>>) => SearchSucceeded
  /\ file # None => ConsolePrinted
  /\ (chain \/ digests # <<>> \/ posts # <<>>) =>
       SearchSucceeded /\ ConsolePrinted /\ MarkdownDone
  /\ (Terminated /\ error # None /\ error[1].at \in {"build_chain", "digest", "post"}) =>
       exit = Some(1) /\ MarkdownDone

C10_Witness ==
  /\ Terminated /\ error # None /\ error[1].at = "digest" /\ file # None
  /\ Len(digests) = 2 /\ exit = Some(1)

====
